---- MODULE Spec2Model ----
(***************************************************************************)
(* TeachTheTeens: the solver pipeline of App (image selection, the staged  *)
(* handleSolve run, clearImage) and the practice session of PracticeMode   *)
(* (question generation, answer submission, grading), with the Gemini      *)
(* service client they call.  Every asynchronous continuation (a timer, a  *)
(* FileReader load, a service response) is one action; a handler runs to   *)
(* its next await without interleaving, as JavaScript does.                *)
(***************************************************************************)
EXTENDS Naturals, Sequences, FiniteSets, TLC

\* ------------------------------------------------------------------ bounds
\* handleSolve invocations per behaviour
MaxSessions == 2
\* FileReader loads pending at one time
MaxReads == 1
\* generatePracticeQuestion calls in flight at one time
MaxRequests == 2
\* generateContent requests of direct generatePracticeQuestion calls in flight at one time
MaxCalls == 3
\* MathJax typesetPromise calls pending at one time
MaxTypesets == 2

\* ------------------------------------------------------------------ values
\* JavaScript null (and JSON null).
Null == [null |-> TRUE]

\* A MIME type is the sequence of its tokens: "image/png" is <<"image","/","png">>.
ImagePrefix == <<"image", "/">>

\* String.prototype.startsWith
StartsWith(str, prefix) ==
    /\ Len(str) >= Len(prefix)
    /\ SubSeq(str, 1, Len(prefix)) = prefix

\* The files the user can pick; accept="image/*" is a hint the dialog does not enforce.
Files ==
    { [name |-> "a.png",  type |-> <<"image", "/", "png">>,  content |-> "AAAA"],
      [name |-> "c.txt",  type |-> <<"text", "/", "plain">>, content |-> "CCCC"],
      [name |-> "d.bin",  type |-> <<>>,                     content |-> "DDDD"] }

\* file.type.startsWith('image/')
IsImageFile(file) == StartsWith(file.type, ImagePrefix)

ImageFiles == { f \in Files : IsImageFile(f) }

\* FileReader.readAsDataURL: "data:<type>;base64,<content>"
DataURL(file) == [mime |-> file.type, data |-> file.content]

\* image.split(',')[1]
Base64Of(url) == url.data

\* image.split(';')[0].split(':')[1]
MimeOf(url) == url.mime

\* setError argument
ErrMsg(text) == [msg |-> text]

InvalidFileMsg == ErrMsg("Please upload a valid image file.")

ProcessFailMsg == ErrMsg("Failed to process image. Please try a clearer image or ensure it contains a valid math problem.")

\* ProcessingStage
Stages == {"idle", "preprocessing", "ocr", "parsing", "solving", "complete", "error"}

\* ------------------------------------------------------ the service's replies
\* A JSON array / a JSON string, as the value of a field.
JArr(seq) == [arr |-> seq]

JStr(s) == [str |-> s]

StepA == [latex |-> "2x=4", explanation |-> "Subtract 3", rule |-> "Subtraction"]

\* A conforming MathSolution.
SolFull ==
    [originalLatex |-> "2x+3=7", cleanedLatex |-> "2x+3=7", problemType |-> "Algebra",
     steps |-> JArr(<<StepA>>), finalAnswer |-> "x=2", confidence |-> "0.99"]

\* All required fields present, steps an empty sequence.
SolNoSteps ==
    [originalLatex |-> "1+1", cleanedLatex |-> "1+1", problemType |-> "Arithmetic",
     steps |-> JArr(<<>>), finalAnswer |-> "2", confidence |-> "0.5"]

\* finalAnswer missing.
SolNoFinal ==
    [originalLatex |-> "2x+3=7", cleanedLatex |-> "2x+3=7", problemType |-> "Algebra",
     steps |-> JArr(<<StepA>>), confidence |-> "0.99"]

\* steps is not a sequence.
SolStepsString ==
    [originalLatex |-> "2x+3=7", cleanedLatex |-> "2x+3=7", problemType |-> "Algebra",
     steps |-> JStr("none"), finalAnswer |-> "x=2", confidence |-> "0.99"]

\* The JSON documents the service can send as response.text.
SolveJson == {SolFull, SolNoSteps, SolNoFinal, SolStepsString, Null}

\* response.text: absent or empty, text that is not JSON, or a JSON document.
NoText == [empty |-> TRUE]

NotJsonText == [raw |-> "Sorry, I cannot read this image."]

JsonText(value) == [json |-> value]

\* What ai.models.generateContent settles with: a rejection or a response.
Rejected == [kind |-> "rejected"]

Responded(text) == [kind |-> "response", text |-> text]

SolveReplies ==
    {Rejected, Responded(NoText), Responded(NotJsonText)}
        \cup { Responded(JsonText(v)) : v \in SolveJson }

\* if (response.text): undefined and '' are falsy
Truthy(text) == "empty" \notin DOMAIN text

\* JSON.parse
JSONParse(text) ==
    IF "json" \in DOMAIN text
    THEN [threw |-> FALSE, value |-> text.json]
    ELSE [threw |-> TRUE, value |-> Null]

Threw == [threw |-> TRUE, value |-> Null]

\* solveMathProblem after generateContent has settled with reply: the value the
\* returned promise resolves with, or threw (the catch block rethrows).
solveMathProblem(reply) ==
    IF reply.kind = "rejected" THEN Threw
    ELSE IF Truthy(reply.text) THEN JSONParse(reply.text)
    ELSE Threw

\* ------------------------------------------------------------------ state
VARIABLES
    image,            \* App state: data URL of the loaded image, or Null
    processingStage,  \* App state: ProcessingStage
    solution,         \* App state: MathSolution or Null
    error,            \* App state: message or Null
    fileInput,        \* fileInputRef.current.value: name of the chosen file, or ""
    reads,            \* FileReader loads in flight: file -> how many
    sessions,         \* handleSolve invocations, in order of start
    mounted,          \* App state mode = 'practice': PracticeMode is mounted
    question,         \* PracticeMode state: QuizQuestion or Null
    loading,          \* PracticeMode state
    userAnswer,       \* PracticeMode state: the typed text, a sequence of characters
    answerImage,      \* PracticeMode state: data URL of the attached image, or Null
    grading,          \* PracticeMode state: GradingResult or Null
    isGrading,        \* PracticeMode state
    difficulty,       \* PracticeMode state: 'Easy' | 'Medium' | 'Hard'
    answerFileInput,  \* PracticeMode fileInputRef.current.value
    answerReads,      \* PracticeMode FileReader loads in flight: file -> how many
    genRequests,      \* generatePracticeQuestion calls in flight, in order of issue
    gradeRequests,    \* gradeAnswer calls in flight, in order of issue
    upstream,         \* geminiService: generateContent requests of generatePracticeQuestion in flight
    clientCalls,      \* geminiService: solveMathProblem and gradeAnswer calls in flight
    returned,         \* geminiService: how the last settled call ended, or Null
    container,        \* MathRenderer: the children of containerRef.current, in order
    mathJax,          \* window.MathJax: "absent", "config" (no typesetPromise yet) or "ready"
    typesets,         \* MathRenderer: typesetPromise calls that have not settled
    effectProps,      \* MathRenderer: the [latex, display] the effect last ran with, or Null
    logged            \* MathRenderer: console.error('MathJax Typeset failed: ', err) has been called

solverVars == <<image, processingStage, solution, error, fileInput, reads, sessions>>

practiceVars ==
    <<mounted, question, loading, userAnswer, answerImage, grading, isGrading,
      difficulty, answerFileInput, answerReads, genRequests, gradeRequests>>

clientVars == <<upstream, clientCalls, returned>>

rendererVars == <<container, mathJax, typesets, effectProps, logged>>

vars == <<solverVars, practiceVars, clientVars, rendererVars>>

\* One handleSolve invocation.  pc is where it is suspended:
\*   "t1" the 1200 ms timer, "t2" the 1500 ms timer, "call" the service call,
\*   "t3" the 1000 ms timer, "complete" / "failed" once it has returned.
\* image is the `image` of the closure, result the `result` constant.
\* cleared records that clearImage ran while the invocation was in progress.
NewSession(img) ==
    [pc |-> "t1", image |-> img, result |-> Null, cleared |-> FALSE]

\* An invocation that has returned: its closure is gone.
Returned(outcome) ==
    [pc |-> outcome, image |-> Null, result |-> Null, cleared |-> FALSE]

InProgress(s) == s.pc \in {"t1", "t2", "call", "t3"}

Running == { i \in DOMAIN sessions : InProgress(sessions[i]) }

\* The number of loads in flight in a file -> count map.
RECURSIVE SumReads(_, _)
SumReads(pending, S) ==
    IF S = {} THEN 0
    ELSE LET f == CHOOSE x \in S : TRUE IN pending[f] + SumReads(pending, S \ {f})

\* ------------------------------------------------------------------ Init
Init ==
    /\ image = Null
    /\ processingStage = "idle"
    /\ solution = Null
    /\ error = Null
    /\ fileInput = ""
    /\ reads = [f \in Files |-> 0]
    /\ sessions = <<>>
    /\ mounted = FALSE
    /\ question = Null
    /\ loading = FALSE
    /\ userAnswer = <<>>
    /\ answerImage = Null
    /\ grading = Null
    /\ isGrading = FALSE
    /\ difficulty = "Medium"
    /\ answerFileInput = ""
    /\ answerReads = [f \in Files |-> 0]
    /\ genRequests = <<>>
    /\ gradeRequests = <<>>
    /\ upstream = <<>>
    /\ clientCalls = <<>>
    /\ returned = Null
    /\ container = <<>>
    /\ mathJax = "absent"
    /\ typesets = 0
    /\ effectProps = Null
    /\ logged = FALSE

\* ------------------------------------------------------------------ solver
\* The file dialog can be opened from the empty drop area (no image) or from
\* "Try Different Image" (image loaded and stage idle); change fires only when
\* the chosen file differs from the input's value.
CanPickFile == image = Null \/ processingStage = "idle"

\* processFile without its type check: every file is read.
processFile_NoTypeCheck(file) ==
    /\ CanPickFile
    /\ file.name # fileInput
    /\ fileInput' = file.name
    /\ solution' = Null
    /\ processingStage' = "idle"
    /\ UNCHANGED sessions
    /\ SumReads(reads, Files) < MaxReads
    /\ error' = Null
    /\ reads' = [reads EXCEPT ![file] = @ + 1]
    /\ UNCHANGED image

\* processFile discarding the loaded image when it refuses a file.
processFile_DropsImage(file) ==
    /\ CanPickFile
    /\ file.name # fileInput
    /\ fileInput' = file.name
    /\ solution' = Null
    /\ processingStage' = "idle"
    /\ UNCHANGED sessions
    /\ IF ~IsImageFile(file)
       THEN /\ error' = InvalidFileMsg
            /\ image' = Null
            /\ UNCHANGED reads
       ELSE /\ SumReads(reads, Files) < MaxReads
            /\ error' = Null
            /\ reads' = [reads EXCEPT ![file] = @ + 1]
            /\ UNCHANGED image

\* processFile, reached from handleFileSelect
processFile(file) ==
    /\ CanPickFile
    /\ file.name # fileInput
    /\ fileInput' = file.name
    /\ solution' = Null
    /\ processingStage' = "idle"
    /\ UNCHANGED sessions
    /\ IF ~IsImageFile(file)
       THEN /\ error' = InvalidFileMsg
            /\ UNCHANGED <<image, reads>>
       ELSE /\ SumReads(reads, Files) < MaxReads
            /\ error' = Null
            /\ reads' = [reads EXCEPT ![file] = @ + 1]
            /\ UNCHANGED image

\* reader.onload
readerOnload(file) ==
    /\ reads[file] > 0
    /\ reads' = [reads EXCEPT ![file] = @ - 1]
    /\ image' = DataURL(file)
    /\ UNCHANGED <<processingStage, solution, error, fileInput, sessions>>

\* "Start Pipeline" is rendered when image && processingStage === 'idle'.
CanStart == image # Null /\ processingStage = "idle"

\* handleSolve up to its first await
handleSolve ==
    /\ CanStart
    /\ Len(sessions) < MaxSessions
    /\ error' = Null
    /\ processingStage' = "preprocessing"
    /\ sessions' = Append(sessions, NewSession(image))
    /\ UNCHANGED <<image, solution, fileInput, reads>>

\* handleSolve resumed by the 1200 ms timer
afterPreprocessing(i) ==
    /\ sessions[i].pc = "t1"
    /\ processingStage' = "ocr"
    /\ sessions' = [sessions EXCEPT ![i].pc = "t2"]
    /\ UNCHANGED <<image, solution, error, fileInput, reads>>

\* handleSolve resumed by the 1500 ms timer: the request is built and sent
afterOcr(i) ==
    /\ sessions[i].pc = "t2"
    /\ processingStage' = "parsing"
    /\ sessions' = [sessions EXCEPT ![i].pc = "call"]
    /\ UNCHANGED <<image, solution, error, fileInput, reads>>

\* The request of session i: solveMathProblem(base64Data, mimeType)
RequestOf(s) == [data |-> Base64Of(s.image), mimeType |-> MimeOf(s.image)]

\* handleSolve with a catch block that waits and sends the request again.
afterCall_RetryOnFailure(i, reply) ==
    /\ sessions[i].pc = "call"
    /\ LET r == solveMathProblem(reply) IN
         IF r.threw
         THEN /\ processingStage' = "error"
              /\ error' = ProcessFailMsg
              /\ sessions' = [sessions EXCEPT ![i].pc = "t2"]
         ELSE /\ processingStage' = "solving"
              /\ error' = error
              /\ sessions' = [sessions EXCEPT ![i].pc = "t3", ![i].result = r.value]
    /\ UNCHANGED <<image, solution, fileInput, reads>>

\* handleSolve without its catch block: a failed call ends the invocation
\* (an unhandled rejection) and sets neither stage nor error.
afterCall_NoCatch(i, reply) ==
    /\ sessions[i].pc = "call"
    /\ LET r == solveMathProblem(reply) IN
         IF r.threw
         THEN /\ UNCHANGED <<processingStage, error>>
              /\ sessions' = [sessions EXCEPT ![i] = Returned("failed")]
         ELSE /\ processingStage' = "solving"
              /\ error' = error
              /\ sessions' = [sessions EXCEPT ![i].pc = "t3", ![i].result = r.value]
    /\ UNCHANGED <<image, solution, fileInput, reads>>

\* handleSolve resumed by the settled service call: on to 'solving', or the catch block
afterCall(i, reply) ==
    /\ sessions[i].pc = "call"
    /\ LET r == solveMathProblem(reply) IN
         IF r.threw
         THEN /\ processingStage' = "error"
              /\ error' = ProcessFailMsg
              /\ sessions' = [sessions EXCEPT ![i] = Returned("failed")]
         ELSE /\ processingStage' = "solving"
              /\ error' = error
              /\ sessions' = [sessions EXCEPT ![i].pc = "t3", ![i].result = r.value]
    /\ UNCHANGED <<image, solution, fileInput, reads>>

\* handleSolve resumed by the 1000 ms timer
afterSolving(i) ==
    /\ sessions[i].pc = "t3"
    /\ processingStage' = "complete"
    /\ solution' = sessions[i].result
    /\ sessions' = [sessions EXCEPT ![i] = Returned("complete")]
    /\ UNCHANGED <<image, error, fileInput, reads>>

\* The X button is rendered whenever an image is loaded.
CanClear == image # Null

\* clearImage
clearImage ==
    /\ CanClear
    /\ image' = Null
    /\ solution' = Null
    /\ processingStage' = "idle"
    /\ error' = Null
    /\ fileInput' = ""
    /\ sessions' = [i \in DOMAIN sessions |->
                      IF InProgress(sessions[i])
                      THEN [sessions[i] EXCEPT !.cleared = TRUE]
                      ELSE sessions[i]]
    /\ UNCHANGED reads

PickFile == \E file \in Files : processFile(file)

ReaderLoads == \E file \in Files : readerOnload(file)

Timer1 == \E i \in DOMAIN sessions : afterPreprocessing(i)

Timer2 == \E i \in DOMAIN sessions : afterOcr(i)

ServiceSettles == \E i \in DOMAIN sessions : \E reply \in SolveReplies : afterCall(i, reply)

Timer3 == \E i \in DOMAIN sessions : afterSolving(i)

\* The solver screen (mode 'solver'): PracticeMode is not mounted.
Next ==
    \/ PickFile /\ UNCHANGED <<practiceVars, clientVars, rendererVars>>
    \/ ReaderLoads /\ UNCHANGED <<practiceVars, clientVars, rendererVars>>
    \/ handleSolve /\ UNCHANGED <<practiceVars, clientVars, rendererVars>>
    \/ Timer1 /\ UNCHANGED <<practiceVars, clientVars, rendererVars>>
    \/ Timer2 /\ UNCHANGED <<practiceVars, clientVars, rendererVars>>
    \/ ServiceSettles /\ UNCHANGED <<practiceVars, clientVars, rendererVars>>
    \/ Timer3 /\ UNCHANGED <<practiceVars, clientVars, rendererVars>>
    \/ clearImage /\ UNCHANGED <<practiceVars, clientVars, rendererVars>>

Spec == Init /\ [][Next]_vars

\* The solver screen with its timers firing and the service call settling:
\* setTimeout callbacks run, and generateContent resolves or rejects.
FairSpec ==
    /\ Spec
    /\ WF_vars(Timer1 /\ UNCHANGED <<practiceVars, clientVars, rendererVars>>)
    /\ WF_vars(Timer2 /\ UNCHANGED <<practiceVars, clientVars, rendererVars>>)
    /\ WF_vars(ServiceSettles /\ UNCHANGED <<practiceVars, clientVars, rendererVars>>)
    /\ WF_vars(Timer3 /\ UNCHANGED <<practiceVars, clientVars, rendererVars>>)

\* ------------------------------------------------------------------ practice
Levels == {"Easy", "Medium", "Hard"}

\* The texts the user can have in the answer box.
NoAnswer == <<>>

BlankAnswer == <<" ">>

TypedAnswer == <<"x", "=", "2">>

Answers == {NoAnswer, BlankAnswer, TypedAnswer}

\* String.prototype.trim
RECURSIVE TrimStart(_)
TrimStart(str) ==
    IF str # <<>> /\ Head(str) = " " THEN TrimStart(Tail(str)) ELSE str

RECURSIVE TrimEnd(_)
TrimEnd(str) ==
    IF str # <<>> /\ str[Len(str)] = " " THEN TrimEnd(SubSeq(str, 1, Len(str) - 1)) ELSE str

Trim(str) == TrimEnd(TrimStart(str))

\* The JSON documents the service can send for a question.
QuestionEasy ==
    [id |-> "q1", latex |-> "2x+3=7", difficulty |-> "Easy", topic |-> "Linear Equations"]

QuestionHard ==
    [id |-> "q2", latex |-> "y''+y=0", difficulty |-> "Hard", topic |-> "Differential Equations"]

QuestionReplies ==
    {Rejected, Responded(NoText), Responded(JsonText(QuestionEasy)),
     Responded(JsonText(QuestionHard))}

\* The JSON documents the service can send for a grade.
GradeCorrect ==
    [isCorrect |-> TRUE, score |-> 10, feedback |-> "Correct!", correctSolution |-> "x=2"]

GradeWrong ==
    [isCorrect |-> FALSE, score |-> 3, feedback |-> "Check the sign.", correctSolution |-> "x=2"]

GradeReplies ==
    {Rejected, Responded(NotJsonText), Responded(JsonText(GradeCorrect)),
     Responded(JsonText(GradeWrong))}

\* generatePracticeQuestion after generateContent has settled with reply
generatePracticeQuestion(reply) ==
    IF reply.kind = "rejected" THEN Threw
    ELSE IF Truthy(reply.text) THEN JSONParse(reply.text)
    ELSE Threw

\* gradeAnswer after generateContent has settled with reply
gradeAnswer(reply) ==
    IF reply.kind = "rejected" THEN Threw
    ELSE IF Truthy(reply.text) THEN JSONParse(reply.text)
    ELSE Threw

\* A generatePracticeQuestion call in flight: the level asked for, and whether
\* fetchQuestion (try/catch/finally) or handleDifficultyChange (then) awaits it.
GenRequest(level, by) == [level |-> level, by |-> by]

\* A gradeAnswer call in flight: its arguments; superseded records that a new
\* round was started (fetchQuestion, or the fetch of handleDifficultyChange)
\* while it was pending.
GradeRequest(q, text, img) ==
    [questionLatex |-> q.latex, userAnswerText |-> text,
     userAnswerImage |-> IF img = Null THEN Null ELSE [data |-> Base64Of(img)],
     mimeType |-> IF img = Null THEN Null ELSE [mime |-> MimeOf(img)],
     superseded |-> FALSE]

Supersede(requests) ==
    [i \in DOMAIN requests |-> [requests[i] EXCEPT !.superseded = TRUE]]

\* s without its i-th element
RemoveAt(s, i) == SubSeq(s, 1, i - 1) \o SubSeq(s, i + 1, Len(s))

\* setMode('practice'): PracticeMode mounts and its effect calls fetchQuestion
mountPractice ==
    /\ ~mounted
    /\ mounted' = TRUE
    /\ loading' = TRUE
    /\ grading' = Null
    /\ userAnswer' = NoAnswer
    /\ answerImage' = Null
    /\ genRequests' = Append(genRequests, GenRequest(difficulty, "fetchQuestion"))
    /\ UNCHANGED <<question, isGrading, difficulty, answerFileInput, answerReads,
                   gradeRequests>>

\* setMode('solver'): PracticeMode unmounts; its state is dropped and what is
\* still in flight can no longer set it.
unmountPractice ==
    /\ mounted
    /\ mounted' = FALSE
    /\ question' = Null
    /\ loading' = FALSE
    /\ userAnswer' = NoAnswer
    /\ answerImage' = Null
    /\ grading' = Null
    /\ isGrading' = FALSE
    /\ difficulty' = "Medium"
    /\ answerFileInput' = ""
    /\ answerReads' = [f \in Files |-> 0]
    /\ genRequests' = <<>>
    /\ gradeRequests' = <<>>

\* fetchQuestion without setUserAnswer(''): the typed text outlives the round.
fetchQuestion_KeepAnswer ==
    /\ mounted
    /\ Len(genRequests) < MaxRequests
    /\ loading' = TRUE
    /\ grading' = Null
    /\ answerImage' = Null
    /\ genRequests' = Append(genRequests, GenRequest(difficulty, "fetchQuestion"))
    /\ gradeRequests' = Supersede(gradeRequests)
    /\ UNCHANGED <<mounted, question, userAnswer, isGrading, difficulty, answerFileInput,
                   answerReads>>

\* fetchQuestion up to its await ("New Question" and "Next Problem")
fetchQuestion ==
    /\ mounted
    /\ Len(genRequests) < MaxRequests
    /\ loading' = TRUE
    /\ grading' = Null
    /\ userAnswer' = NoAnswer
    /\ answerImage' = Null
    /\ genRequests' = Append(genRequests, GenRequest(difficulty, "fetchQuestion"))
    /\ gradeRequests' = Supersede(gradeRequests)
    /\ UNCHANGED <<mounted, question, isGrading, difficulty, answerFileInput, answerReads>>

\* The continuation of a settled generatePracticeQuestion call: fetchQuestion's
\* try / catch / finally, or the then() of handleDifficultyChange, which has no
\* catch.
afterGenerate(i, reply) ==
    /\ i \in DOMAIN genRequests
    /\ LET r == generatePracticeQuestion(reply)
           by == genRequests[i].by IN
         /\ question' = IF r.threw THEN question ELSE r.value
         /\ loading' = IF r.threw /\ by = "handleDifficultyChange" THEN loading ELSE FALSE
    /\ genRequests' = RemoveAt(genRequests, i)
    /\ UNCHANGED <<mounted, userAnswer, answerImage, grading, isGrading, difficulty,
                   answerFileInput, answerReads, gradeRequests>>

\* handleDifficultyChange without the test of line 44: it fetches whatever the round holds.
handleDifficultyChange_AlwaysFetch(level) ==
    /\ mounted
    /\ difficulty # level
    /\ difficulty' = level
    /\ Len(genRequests) < MaxRequests
    /\ loading' = TRUE
    /\ genRequests' = Append(genRequests, GenRequest(level, "handleDifficultyChange"))
    /\ gradeRequests' = Supersede(gradeRequests)
    /\ UNCHANGED <<mounted, question, userAnswer, answerImage, grading, isGrading,
                   answerFileInput, answerReads>>

\* handleDifficultyChange asking for the level of the closure, not the chosen one.
handleDifficultyChange_StaleLevel(level) ==
    /\ mounted
    /\ difficulty # level
    /\ difficulty' = level
    /\ IF grading = Null /\ userAnswer = NoAnswer /\ answerImage = Null
       THEN /\ Len(genRequests) < MaxRequests
            /\ loading' = TRUE
            /\ genRequests' = Append(genRequests, GenRequest(difficulty, "handleDifficultyChange"))
            /\ gradeRequests' = Supersede(gradeRequests)
       ELSE UNCHANGED <<loading, genRequests, gradeRequests>>
    /\ UNCHANGED <<mounted, question, userAnswer, answerImage, grading, isGrading,
                   answerFileInput, answerReads>>

\* handleDifficultyChange
handleDifficultyChange(level) ==
    /\ mounted
    /\ difficulty # level
    /\ difficulty' = level
    /\ IF grading = Null /\ userAnswer = NoAnswer /\ answerImage = Null
       THEN /\ Len(genRequests) < MaxRequests
            /\ loading' = TRUE
            /\ genRequests' = Append(genRequests, GenRequest(level, "handleDifficultyChange"))
            /\ gradeRequests' = Supersede(gradeRequests)
       ELSE UNCHANGED <<loading, genRequests, gradeRequests>>
    /\ UNCHANGED <<mounted, question, userAnswer, answerImage, grading, isGrading,
                   answerFileInput, answerReads>>

\* disabled={loading || isGrading || !!grading} on the camera button and the text input
InputsDisabled == loading \/ isGrading \/ grading # Null

\* onChange of the text input
typeAnswer(text) ==
    /\ mounted
    /\ ~InputsDisabled
    /\ text # userAnswer
    /\ userAnswer' = text
    /\ UNCHANGED <<mounted, question, loading, answerImage, grading, isGrading, difficulty,
                   answerFileInput, answerReads, genRequests, gradeRequests>>

\* handleImageSelect: the dialog is opened by the camera button
handleImageSelect(file) ==
    /\ mounted
    /\ ~InputsDisabled
    /\ file.name # answerFileInput
    /\ answerFileInput' = file.name
    /\ IF ~IsImageFile(file)
       THEN UNCHANGED answerReads
       ELSE /\ SumReads(answerReads, Files) < MaxReads
            /\ answerReads' = [answerReads EXCEPT ![file] = @ + 1]
    /\ UNCHANGED <<mounted, question, loading, userAnswer, answerImage, grading, isGrading,
                   difficulty, genRequests, gradeRequests>>

\* reader.onload of handleImageSelect
answerReaderOnload(file) ==
    /\ answerReads[file] > 0
    /\ answerReads' = [answerReads EXCEPT ![file] = @ - 1]
    /\ answerImage' = DataURL(file)
    /\ UNCHANGED <<mounted, question, loading, userAnswer, grading, isGrading, difficulty,
                   answerFileInput, genRequests, gradeRequests>>

\* removeImage: its button is rendered whenever an image is attached
removeImage ==
    /\ mounted
    /\ answerImage # Null
    /\ answerImage' = Null
    /\ answerFileInput' = ""
    /\ UNCHANGED <<mounted, question, loading, userAnswer, grading, isGrading, difficulty,
                   answerReads, genRequests, gradeRequests>>

\* The submit guards with the test of the grading result left out.
CanTriggerSubmit_IgnoringGrading == ~(loading \/ isGrading)

\* The send button is enabled when there is an answer and the inputs are enabled;
\* Enter in the text input reaches handleSubmit whenever the input is enabled.
CanTriggerSubmit == ~InputsDisabled

\* The test of handleSubmit with userAnswer in place of userAnswer.trim().
SubmitPasses_NoTrim == question # Null /\ (userAnswer # <<>> \/ answerImage # Null)

\* if (!question || (!userAnswer.trim() && !answerImage)) return;
SubmitPasses == question # Null /\ (Trim(userAnswer) # <<>> \/ answerImage # Null)

\* handleSubmit up to its await
handleSubmit ==
    /\ mounted
    /\ CanTriggerSubmit
    /\ SubmitPasses
    /\ isGrading' = TRUE
    /\ gradeRequests' = Append(gradeRequests, GradeRequest(question, userAnswer, answerImage))
    /\ UNCHANGED <<mounted, question, loading, userAnswer, answerImage, grading, difficulty,
                   answerFileInput, answerReads, genRequests>>

\* handleSubmit's continuation with setIsGrading(false) at the end of the try
\* block, not in a finally block.
afterGrade_NoFinally(i, reply) ==
    /\ i \in DOMAIN gradeRequests
    /\ LET r == gradeAnswer(reply) IN
         /\ grading' = IF r.threw THEN grading ELSE r.value
         /\ isGrading' = IF r.threw THEN isGrading ELSE FALSE
    /\ gradeRequests' = RemoveAt(gradeRequests, i)
    /\ UNCHANGED <<mounted, question, loading, userAnswer, answerImage, difficulty,
                   answerFileInput, answerReads, genRequests>>

\* handleSubmit resumed by the settled gradeAnswer call: try / catch / finally
afterGrade(i, reply) ==
    /\ i \in DOMAIN gradeRequests
    /\ LET r == gradeAnswer(reply) IN
         grading' = IF r.threw THEN grading ELSE r.value
    /\ isGrading' = FALSE
    /\ gradeRequests' = RemoveAt(gradeRequests, i)
    /\ UNCHANGED <<mounted, question, loading, userAnswer, answerImage, difficulty,
                   answerFileInput, answerReads, genRequests>>

GenerateSettles ==
    \E i \in DOMAIN genRequests : \E reply \in QuestionReplies : afterGenerate(i, reply)

ChangeDifficulty == \E level \in Levels : handleDifficultyChange(level)

TypeAnswer == \E text \in Answers : typeAnswer(text)

PickAnswerImage == \E file \in Files : handleImageSelect(file)

AnswerReaderLoads == \E file \in Files : answerReaderOnload(file)

GradeSettles ==
    \E i \in DOMAIN gradeRequests : \E reply \in GradeReplies : afterGrade(i, reply)

\* The practice screen (mode 'practice').
PracticeNext ==
    \/ mountPractice /\ UNCHANGED <<solverVars, clientVars, rendererVars>>
    \/ unmountPractice /\ UNCHANGED <<solverVars, clientVars, rendererVars>>
    \/ fetchQuestion /\ UNCHANGED <<solverVars, clientVars, rendererVars>>
    \/ GenerateSettles /\ UNCHANGED <<solverVars, clientVars, rendererVars>>
    \/ ChangeDifficulty /\ UNCHANGED <<solverVars, clientVars, rendererVars>>
    \/ TypeAnswer /\ UNCHANGED <<solverVars, clientVars, rendererVars>>
    \/ PickAnswerImage /\ UNCHANGED <<solverVars, clientVars, rendererVars>>
    \/ AnswerReaderLoads /\ UNCHANGED <<solverVars, clientVars, rendererVars>>
    \/ removeImage /\ UNCHANGED <<solverVars, clientVars, rendererVars>>
    \/ handleSubmit /\ UNCHANGED <<solverVars, clientVars, rendererVars>>
    \/ GradeSettles /\ UNCHANGED <<solverVars, clientVars, rendererVars>>

PracticeSpec == Init /\ [][PracticeNext]_vars

\* ------------------------------------------------------------------ service client
\* generatePracticeQuestion called directly.  Its parameter type
\* 'Easy' | 'Medium' | 'Hard' is erased at run time: a caller can pass any
\* string, or nothing.
Given(value) == [value |-> value]

Omitted == [undefined |-> TRUE]

DifficultyArgs == { Given(l) : l \in Levels \cup {"Extreme"} } \cup {Omitted}

EasyPrompt == "Generate a random simple algebra math practice problem suitable for beginners"

HardPrompt == "Generate a challenging random math practice problem suitable for advanced college level"

MediumPrompt == "Generate a random math practice problem suitable for high school or early college level"

\* switch (difficulty): case 'Easy', case 'Hard', case 'Medium' and default
DifficultyPrompt(arg) ==
    IF arg = Given("Easy") THEN EasyPrompt
    ELSE IF arg = Given("Hard") THEN HardPrompt
    ELSE MediumPrompt

\* generatePracticeQuestion(arg) up to its await: the request is sent.  The
\* entry keeps the argument of the call beside the contents that go upstream.
callGenerate(arg) ==
    /\ Len(upstream) < MaxCalls
    /\ upstream' = Append(upstream, [difficulty |-> arg, contents |-> DifficultyPrompt(arg)])
    /\ UNCHANGED <<clientCalls, returned>>

\* generatePracticeQuestion resumed by the settled generateContent call
clientSettles(i, reply) ==
    /\ i \in DOMAIN upstream
    /\ returned' = generatePracticeQuestion(reply)
    /\ upstream' = RemoveAt(upstream, i)
    /\ UNCHANGED clientCalls

\* A question document without its latex field, and a grade document without
\* its score: JSON the service can send that is not the expected shape.
QuestionNoLatex == [id |-> "q3", difficulty |-> "Easy", topic |-> "Linear Equations"]

GradeNoScore == [isCorrect |-> TRUE, feedback |-> "Correct!", correctSolution |-> "x=2"]

\* What generateContent can settle with for a direct call.
ClientQuestionReplies ==
    QuestionReplies \cup {Responded(NotJsonText), Responded(JsonText(QuestionNoLatex))}

ClientGradeReplies ==
    GradeReplies \cup {Responded(NoText), Responded(JsonText(GradeNoScore))}

\* solveMathProblem(base64Image, mimeType) up to its await
callSolve(file) ==
    /\ Len(clientCalls) < MaxCalls
    /\ clientCalls' = Append(clientCalls,
                             [fn |-> "solveMathProblem", data |-> Base64Of(DataURL(file)),
                              mimeType |-> MimeOf(DataURL(file))])
    /\ UNCHANGED <<upstream, returned>>

\* gradeAnswer(questionLatex, userAnswerText) up to its await
callGrade(q, text) ==
    /\ Len(clientCalls) < MaxCalls
    /\ clientCalls' = Append(clientCalls,
                             [fn |-> "gradeAnswer", questionLatex |-> q.latex,
                              userAnswerText |-> text])
    /\ UNCHANGED <<upstream, returned>>

\* solveMathProblem resumed by the settled generateContent call
clientSolveSettles(i, reply) ==
    /\ i \in DOMAIN clientCalls
    /\ clientCalls[i].fn = "solveMathProblem"
    /\ returned' = solveMathProblem(reply)
    /\ clientCalls' = RemoveAt(clientCalls, i)
    /\ UNCHANGED upstream

\* gradeAnswer resumed by the settled generateContent call
clientGradeSettles(i, reply) ==
    /\ i \in DOMAIN clientCalls
    /\ clientCalls[i].fn = "gradeAnswer"
    /\ returned' = gradeAnswer(reply)
    /\ clientCalls' = RemoveAt(clientCalls, i)
    /\ UNCHANGED upstream

CallGenerate == \E arg \in DifficultyArgs : callGenerate(arg)

ClientSettles ==
    \E i \in DOMAIN upstream : \E reply \in ClientQuestionReplies : clientSettles(i, reply)

CallSolve == \E file \in ImageFiles : callSolve(file)

CallGrade == callGrade(QuestionEasy, TypedAnswer)

ClientSolveSettles ==
    \E i \in DOMAIN clientCalls : \E reply \in SolveReplies : clientSolveSettles(i, reply)

ClientGradeSettles ==
    \E i \in DOMAIN clientCalls : \E reply \in ClientGradeReplies : clientGradeSettles(i, reply)

ClientNext ==
    \/ CallGenerate /\ UNCHANGED <<solverVars, practiceVars, rendererVars>>
    \/ ClientSettles /\ UNCHANGED <<solverVars, practiceVars, rendererVars>>
    \/ CallSolve /\ UNCHANGED <<solverVars, practiceVars, rendererVars>>
    \/ ClientSolveSettles /\ UNCHANGED <<solverVars, practiceVars, rendererVars>>
    \/ CallGrade /\ UNCHANGED <<solverVars, practiceVars, rendererVars>>
    \/ ClientGradeSettles /\ UNCHANGED <<solverVars, practiceVars, rendererVars>>

ClientSpec == Init /\ [][ClientNext]_vars

\* ------------------------------------------------------------------ renderer
\* One MathRenderer instance: its effect runs after mount and whenever latex or
\* display change, and writes into the element of containerRef.
Latexes == {"x^2", "x/2", "1+1"}

\* span.innerHTML = display ? `$$${latex}$$` : `$${latex}$`
Delimited(latex, display) ==
    IF display THEN <<"$$", latex, "$$">> ELSE <<"$", latex, "$">>

\* A child of the container: its text, and whether MathJax has typeset it.
Span(latex, display) == [text |-> Delimited(latex, display), typeset |-> FALSE]

\* The MathJax script loads: window.MathJax appears, with or without typesetPromise.
mathJaxLoads ==
    /\ \/ mathJax = "absent" /\ mathJax' \in {"config", "ready"}
       \/ mathJax = "config" /\ mathJax' = "ready"
    /\ UNCHANGED <<container, typesets, effectProps, logged>>

\* The effect without containerRef.current.innerHTML = ''.
render_NoClear(latex, display) ==
    /\ effectProps # [latex |-> latex, display |-> display]
    /\ effectProps' = [latex |-> latex, display |-> display]
    /\ IF mathJax # "absent"
       THEN /\ container' = Append(container, Span(latex, display))
            /\ IF mathJax = "ready"
               THEN typesets < MaxTypesets /\ typesets' = typesets + 1
               ELSE UNCHANGED typesets
       ELSE UNCHANGED <<container, typesets>>
    /\ UNCHANGED <<mathJax, logged>>

\* useEffect(() => { ... }, [latex, display])
render(latex, display) ==
    /\ effectProps # [latex |-> latex, display |-> display]
    /\ effectProps' = [latex |-> latex, display |-> display]
    /\ IF mathJax # "absent"
       THEN /\ container' = <<Span(latex, display)>>
            /\ IF mathJax = "ready"
               THEN typesets < MaxTypesets /\ typesets' = typesets + 1
               ELSE UNCHANGED typesets
       ELSE UNCHANGED <<container, typesets>>
    /\ UNCHANGED <<mathJax, logged>>

\* A typesetPromise call settles: MathJax has typeset what the container holds,
\* or the promise rejects and the catch handler logs the error.
typesetSettles(ok) ==
    /\ typesets > 0
    /\ typesets' = typesets - 1
    /\ container' = IF ok
                    THEN [i \in DOMAIN container |-> [container[i] EXCEPT !.typeset = TRUE]]
                    ELSE container
    /\ logged' = (logged \/ ~ok)
    /\ UNCHANGED <<mathJax, effectProps>>

\* Solutions as SolutionDisplay can receive them: cleanedLatex differing from
\* originalLatex, empty, or missing from the unchecked JSON.
SolCleaned == [SolFull EXCEPT !.originalLatex = "2 x + 3 = 7"]

SolEmptyCleaned == [SolCleaned EXCEPT !.cleanedLatex = ""]

SolNoCleaned == [f \in DOMAIN SolCleaned \ {"cleanedLatex"} |-> SolCleaned[f]]

DisplaySolutions == {SolCleaned, SolEmptyCleaned, SolNoCleaned}

\* solution.originalLatex || solution.cleanedLatex: the operands the wrong way round.
DisplayedLatex_OriginalFirst(sol) ==
    IF "originalLatex" \in DOMAIN sol /\ sol.originalLatex # ""
    THEN sol.originalLatex
    ELSE sol.cleanedLatex

\* solution.cleanedLatex || solution.originalLatex: undefined and '' are falsy
DisplayedLatex(sol) ==
    IF "cleanedLatex" \in DOMAIN sol /\ sol.cleanedLatex # ""
    THEN sol.cleanedLatex
    ELSE sol.originalLatex

\* <MathRenderer latex={...} display={true} /> of the Original Expression card
displaySolution(sol) == render(DisplayedLatex(sol), TRUE)

MathJaxLoads == mathJaxLoads

Render == \E latex \in Latexes : \E display \in BOOLEAN : render(latex, display)

DisplaySolution == \E sol \in DisplaySolutions : displaySolution(sol)

TypesetSettles == \E ok \in BOOLEAN : typesetSettles(ok)

RendererNext ==
    \/ MathJaxLoads /\ UNCHANGED <<solverVars, practiceVars, clientVars>>
    \/ Render /\ UNCHANGED <<solverVars, practiceVars, clientVars>>
    \/ DisplaySolution /\ UNCHANGED <<solverVars, practiceVars, clientVars>>
    \/ TypesetSettles /\ UNCHANGED <<solverVars, practiceVars, clientVars>>

RendererSpec == Init /\ [][RendererNext]_vars

\* ------------------------------------------------------------------ claims
\* interface MathSolution: the fields a Solution must carry, steps a sequence
RequiredSolutionFields ==
    {"originalLatex", "cleanedLatex", "problemType", "steps", "finalAnswer", "confidence"}

ConformingSolution(v) ==
    /\ RequiredSolutionFields \subseteq DOMAIN v
    /\ DOMAIN v.steps = {"arr"}

\* A JSON object that lacks finalAnswer, or whose steps is not a sequence.
MissingFinalOrBadSteps(v) ==
    /\ v # Null
    /\ \/ "finalAnswer" \notin DOMAIN v
       \/ "steps" \in DOMAIN v /\ DOMAIN v.steps # {"arr"}

\* The order of the stages of one solve run.
NextStage(stage) ==
    CASE stage = "idle" -> "preprocessing"
      [] stage = "preprocessing" -> "ocr"
      [] stage = "ocr" -> "parsing"
      [] stage = "parsing" -> "solving"
      [] stage = "solving" -> "complete"
      [] OTHER -> "none"

NonTerminalStages == {"preprocessing", "ocr", "parsing", "solving"}

\* C1: a submit started with an image loaded and stage idle, with no clear or file
\* selection during it and a conforming Solution returned, moves the stage only
\* from one stage to the next in the order idle, preprocessing, ocr, parsing,
\* solving, complete, and at complete the published Solution is the payload.
C1_ExactStageSequence ==
    [][\A i \in DOMAIN sessions' :
         LET new == i \notin DOMAIN sessions
             s1 == sessions'[i] IN
         ( /\ new \/ (InProgress(sessions[i]) /\ ~sessions[i].cleared)
           /\ ~clearImage /\ ~PickFile
           /\ s1.pc # "failed"
           /\ s1.pc = "t3" => ConformingSolution(s1.result)
           /\ s1.pc = "complete" => ConformingSolution(sessions[i].result) )
         => /\ \/ processingStage' = processingStage
               \/ processingStage' = NextStage(processingStage)
            /\ new => processingStage = "idle" /\ processingStage' = "preprocessing"
            /\ s1.pc = "complete" =>
                  processingStage' = "complete" /\ solution' = sessions[i].result]_vars

\* C2: when the service call of a solve session rejects or throws, the stage
\* has not moved on to solving or complete, the session ends with stage error
\* and an error message, and no Solution is published (solution is null).
C2_FailedCallEndsInError ==
    [][\A i \in DOMAIN sessions :
         (sessions[i].pc = "call" /\ sessions'[i].pc = "failed")
         => /\ processingStage \notin {"solving", "complete"}
            /\ processingStage' = "error"
            /\ error' # Null
            /\ solution' = Null]_vars

\* C3: clear resets the stage to idle, and a solve session that was in progress
\* when clear was invoked never changes stage, solution or error afterwards.
C3_ClearDiscardsInFlight ==
    [][/\ clearImage => processingStage' = "idle"
       /\ \A i \in DOMAIN sessions :
            (sessions[i].cleared /\ sessions'[i].pc # sessions[i].pc)
            => UNCHANGED <<processingStage, solution, error>>]_vars

\* C4: every change of the stage is a step to the next stage in order, a move
\* to error from a non-terminal stage, or a reset to idle by clear or by a
\* file selection; complete and error are left only by such a reset.
C4_StageTransitions ==
    [][processingStage' # processingStage =>
         \/ processingStage' = NextStage(processingStage)
         \/ processingStage' = "error" /\ processingStage \in NonTerminalStages
         \/ processingStage' = "idle" /\ (clearImage \/ PickFile)]_vars

\* C5: stage complete implies a Solution is present, and stage error implies
\* that none is.
C5_StageSolution ==
    /\ processingStage = "complete" => solution # Null
    /\ processingStage = "error" => solution = Null

\* C6: at most one solve session is in progress at any time.
C6_OneSessionInProgress == Cardinality(Running) <= 1

\* C7: a service response missing finalAnswer, or whose steps is not a
\* sequence, never takes the stage from parsing to solving and is never
\* published as the Solution; a response with every required field and an
\* empty steps sequence is accepted.
C7_MalformedRejected ==
    /\ [](\A i \in DOMAIN sessions :
            sessions[i].pc = "t3" => ~MissingFinalOrBadSteps(sessions[i].result))
    /\ [](~MissingFinalOrBadSteps(solution))
    /\ [][\A i \in DOMAIN sessions :
            afterCall(i, Responded(JsonText(SolNoSteps)))
            => sessions'[i].pc = "t3" /\ sessions'[i].result = SolNoSteps]_vars

\* C8: selecting a file whose type does not start with 'image/' sets the
\* invalid-file error in the same step, starts no file read and no session,
\* and no request to the service ever carries anything but an image.
C8_NonImageRejected ==
    /\ [][\A file \in Files :
            (~StartsWith(file.type, ImagePrefix) /\ processFile(file))
            => /\ error' = InvalidFileMsg
               /\ UNCHANGED <<reads, image>>
               /\ Len(sessions') = Len(sessions)
               /\ \A i \in DOMAIN sessions : sessions'[i].pc = sessions[i].pc]_vars
    /\ [](\A file \in Files : ~StartsWith(file.type, ImagePrefix) => reads[file] = 0)
    /\ [](\A i \in Running :
            StartsWith(RequestOf(sessions[i]).mimeType, ImagePrefix))

\* C8 witness: a non-image file has just been selected and refused.
C8_Witness ==
    /\ fileInput \in {"c.txt", "d.bin"}
    /\ error = InvalidFileMsg
    /\ image # Null

\* C9: every failure of a submission ends in stage error with a message set,
\* and a message is never set while the stage is anything other than error.
C9_SingleErrorState == (error # Null) <=> (processingStage = "error")

\* C10: a grading response that arrives after a new round was started (while
\* the grade request was pending) is discarded: it does not set gradingResult.
C10_StaleGradingDiscarded ==
    [][\A i \in DOMAIN gradeRequests : \A reply \in GradeReplies :
         (gradeRequests[i].superseded /\ afterGrade(i, reply))
         => grading' = grading]_vars

\* C11: the response of a question request that was superseded by a later new
\* round (New Question or a change of difficulty), arriving while the later
\* request is still pending, does not replace the active question.
C11_StaleQuestionDiscarded ==
    [][\A i \in DOMAIN genRequests : \A reply \in QuestionReplies :
         (i < Len(genRequests) /\ afterGenerate(i, reply))
         => question' = question]_vars

\* C12: once gradingResult is set and until a new round starts, no grade request
\* is issued by any submit attempt and gradingResult does not change; within the
\* practice session only fetchQuestion (New Question / Next Problem) changes it.
C12_GradedRoundTerminal ==
    [][(grading # Null /\ mounted') =>
         /\ gradeRequests = <<>> /\ gradeRequests' = <<>>
         /\ ~handleSubmit
         /\ grading' # grading => fetchQuestion]_vars

\* C12 witness: a graded round whose answer and question would pass the check
\* of handleSubmit itself; only the guards of the inputs stand in the way.
C12_Witness ==
    /\ grading # Null
    /\ question # Null
    /\ Trim(userAnswer) # <<>>
    /\ ~loading /\ ~isGrading

\* A round with work in it: a grading result, typed text or an attached image.
RoundHasWork == grading # Null \/ Len(userAnswer) > 0 \/ answerImage # Null

\* C13: a change of difficulty made while the round has a grading result, typed
\* text or an attached image issues no generate request and leaves question,
\* answer text, answer image and grading result as they are; it sets the
\* difficulty, and the next fetchQuestion asks for that difficulty.
C13_DifficultyKeepsWork ==
    [][/\ \A level \in Levels :
            (RoundHasWork /\ handleDifficultyChange(level))
            => /\ genRequests' = genRequests
               /\ UNCHANGED <<question, userAnswer, answerImage, grading>>
               /\ difficulty' = level
       /\ fetchQuestion => genRequests'[Len(genRequests')].level = difficulty]_vars

\* C13 witness: a graded round whose difficulty was changed away from the
\* initial one, with no request in flight.
C13_Witness ==
    /\ grading # Null
    /\ question # Null
    /\ difficulty = "Hard"
    /\ genRequests = <<>>
    /\ ~loading

\* C14: a change of difficulty to another level on a fresh round (no grading
\* result, empty answer text, no attached image) at once issues a generate
\* request that carries the chosen level, whichever of Easy, Medium, Hard it is.
C14_FreshRoundFetchesLevel ==
    [][\A level \in Levels :
         (~RoundHasWork /\ handleDifficultyChange(level))
         => /\ Len(genRequests') = Len(genRequests) + 1
            /\ genRequests'[Len(genRequests')].level = level
            /\ genRequests'[Len(genRequests')].level # difficulty
            /\ loading']_vars

\* C14 witness: two requests of handleDifficultyChange in flight on a fresh
\* round, the first for a level other than Medium, the second back for Medium.
C14_Witness ==
    /\ ~RoundHasWork
    /\ Len(genRequests) = 2
    /\ \A i \in {1, 2} : genRequests[i].by = "handleDifficultyChange"
    /\ genRequests[1].level \in {"Easy", "Hard"}
    /\ genRequests[2].level = "Medium"

\* C15: fetchQuestion empties the answer text, the answer image and the grading
\* result at once; when the response to its request then arrives with a
\* question, the state being as fetchQuestion left it, the active question
\* becomes the returned one and text, image and grading result are still empty.
C15_NewRoundReplacesQuestion ==
    [][/\ fetchQuestion =>
            /\ grading' = Null /\ userAnswer' = <<>> /\ answerImage' = Null
            /\ loading'
            /\ genRequests'[Len(genRequests')].by = "fetchQuestion"
       /\ \A v \in {QuestionEasy, QuestionHard} :
            LET n == Len(genRequests) IN
            ( /\ n > 0
              /\ genRequests[n].by = "fetchQuestion"
              /\ loading /\ grading = Null /\ userAnswer = <<>> /\ answerImage = Null
              /\ afterGenerate(n, Responded(JsonText(v))) )
            => /\ question' = v
               /\ grading' = Null /\ userAnswer' = <<>> /\ answerImage' = Null]_vars

\* C15 witness: a new round was started on a round whose typed answer was being
\* graded, and its question has arrived: the round is empty again.
C15_Witness ==
    /\ question # Null
    /\ ~loading
    /\ genRequests = <<>>
    /\ grading = Null /\ userAnswer = <<>> /\ answerImage = Null
    /\ gradeRequests # <<>>
    /\ gradeRequests[1].superseded
    /\ Len(gradeRequests[1].userAnswerText) > 0

\* C16: when the question request of fetchQuestion fails (the call rejects or
\* the response has no text), the active question is none afterwards: the
\* question of the previous round is not kept.
C16_FailedRequestClearsQuestion ==
    [][\A i \in DOMAIN genRequests : \A reply \in {Rejected, Responded(NoText)} :
         (genRequests[i].by = "fetchQuestion" /\ afterGenerate(i, reply))
         => question' = Null]_vars

\* The text has a character other than a space.
HasVisibleText(str) == \E k \in DOMAIN str : str[k] # " "

\* C17: a grade request is issued only when a question is present and the
\* answer has visible text or an image; with no question, or with empty or
\* whitespace-only text and no image, a submit attempt issues nothing and
\* changes nothing, so no request in flight lacks both text and image.
C17_SubmitPrecondition ==
    /\ [][/\ Len(gradeRequests') > Len(gradeRequests)
             => /\ question # Null
                /\ HasVisibleText(userAnswer) \/ answerImage # Null
          /\ (question = Null \/ (~HasVisibleText(userAnswer) /\ answerImage = Null))
             => ~handleSubmit]_vars
    /\ [](\A i \in DOMAIN gradeRequests :
            \/ HasVisibleText(gradeRequests[i].userAnswerText)
            \/ gradeRequests[i].userAnswerImage # Null)

\* C17 witness: the input is enabled and holds only a space, with a question
\* shown and no image: Enter reaches handleSubmit, which returns at once.
C17_Witness ==
    /\ mounted
    /\ question # Null
    /\ userAnswer = BlankAnswer
    /\ answerImage = Null
    /\ ~InputsDisabled
    /\ gradeRequests = <<>>

\* C18: when gradeAnswer fails (the call rejects or the response is not JSON),
\* gradingResult stays unset, question, answer text and answer image keep their
\* values and isGrading is cleared, so that an answer that still passes the
\* check of handleSubmit can be submitted again once no question is loading.
C18_FailedGradeKeepsRound ==
    [][\A i \in DOMAIN gradeRequests : \A reply \in GradeReplies :
         (gradeAnswer(reply).threw /\ afterGrade(i, reply))
         => /\ grading = Null /\ grading' = Null
            /\ UNCHANGED <<question, userAnswer, answerImage>>
            /\ isGrading' = FALSE
            /\ ~loading => CanTriggerSubmit'
            /\ SubmitPasses' = SubmitPasses]_vars

\* C18 witness: a typed answer to the shown question is not being graded, has
\* no grading result and can be submitted.
C18_Witness ==
    /\ mounted
    /\ question # Null
    /\ userAnswer = TypedAnswer
    /\ grading = Null
    /\ ~isGrading /\ ~loading
    /\ gradeRequests = <<>>

\* C19: at most one generatePracticeQuestion call and at most one gradeAnswer
\* call of the practice session is in flight at any time.
C19_OneRequestInFlight == Len(genRequests) <= 1 /\ Len(gradeRequests) <= 1

\* C20: a generatePracticeQuestion call with a difficulty outside Easy, Medium,
\* Hard sends nothing upstream, and the Medium prompt goes upstream only for
\* Medium or for a call that gave no difficulty.
C20_InvalidDifficultyFailsFast ==
    \A i \in DOMAIN upstream :
        /\ upstream[i].difficulty \in { Given(l) : l \in Levels } \cup {Omitted}
        /\ upstream[i].contents = MediumPrompt
           => upstream[i].difficulty \in {Given("Medium"), Omitted}

\* interface QuizQuestion / interface GradingResult: the fields a result must carry
ConformingQuestion(v) ==
    /\ {"id", "latex", "difficulty", "topic"} \subseteq DOMAIN v
    /\ v.difficulty \in Levels

ConformingGrade(v) ==
    {"isCorrect", "score", "feedback", "correctSolution"} \subseteq DOMAIN v

\* The reply is a response (not a transport failure) whose text is empty or
\* is not JSON.
EmptyOrUnparsed(reply) ==
    /\ reply.kind = "response"
    /\ ~Truthy(reply.text) \/ "json" \notin DOMAIN reply.text

\* The reply is a response whose text is a JSON document.
IsJsonResponse(reply) ==
    /\ reply.kind = "response"
    /\ "json" \in DOMAIN reply.text

\* C21: for each of solveMathProblem, generatePracticeQuestion and gradeAnswer,
\* a response that is empty or does not have the expected shape makes the call
\* fail: no result is returned to the caller.
C21_MalformedResponseFails ==
    [][/\ \A i \in DOMAIN clientCalls : \A reply \in SolveReplies :
            ( /\ \/ EmptyOrUnparsed(reply)
                 \/ IsJsonResponse(reply) /\ ~ConformingSolution(reply.text.json)
              /\ clientSolveSettles(i, reply) )
            => returned'.threw
       /\ \A i \in DOMAIN upstream : \A reply \in ClientQuestionReplies :
            ( /\ \/ EmptyOrUnparsed(reply)
                 \/ IsJsonResponse(reply) /\ ~ConformingQuestion(reply.text.json)
              /\ clientSettles(i, reply) )
            => returned'.threw
       /\ \A i \in DOMAIN clientCalls : \A reply \in ClientGradeReplies :
            ( /\ \/ EmptyOrUnparsed(reply)
                 \/ IsJsonResponse(reply) /\ ~ConformingGrade(reply.text.json)
              /\ clientGradeSettles(i, reply) )
            => returned'.threw]_vars

\* C22: a solve session sends its request once, on the way from the 1500 ms
\* timer to the service call, and never returns to that point: not after the
\* call has settled, and not after the session has ended in error.  Sessions
\* are started by handleSolve only, and with no session in progress no request
\* is sent.
C22_NoAutomaticRetry ==
    [][/\ \A i \in DOMAIN sessions :
            /\ (sessions[i].pc # "call" /\ sessions'[i].pc = "call") => sessions[i].pc = "t2"
            /\ sessions[i].pc = "call" => sessions'[i].pc \in {"call", "t3", "failed"}
            /\ sessions[i].pc = "t3" => sessions'[i].pc \in {"t3", "complete"}
            /\ sessions[i].pc \in {"complete", "failed"} => sessions'[i].pc = sessions[i].pc
       /\ \A i \in DOMAIN sessions' \ DOMAIN sessions :
            handleSolve /\ sessions'[i].pc = "t1"
       /\ Running = {} => \A i \in DOMAIN sessions' : sessions'[i].pc # "call"]_vars

\* C22 witness: a session has ended in error after its call failed and no
\* session is in progress.
C22_Witness ==
    /\ processingStage = "error"
    /\ error = ProcessFailMsg
    /\ Running = {}
    /\ \E i \in DOMAIN sessions : sessions[i].pc = "failed"

C25_SessionTerminates ==
    /\ \A i \in 1..MaxSessions : []<>(i \notin Running)
    /\ (processingStage \in NonTerminalStages) ~> (processingStage \in {"complete", "error"})

\* C25 witness: a session has run through all its stages and returned with
\* stage complete.
C25_Witness ==
    /\ processingStage = "complete"
    /\ solution # Null
    /\ Running = {}
    /\ \E i \in DOMAIN sessions : sessions[i].pc = "complete"

\* C26: after clearImage and until a file is selected again (the file input is
\* still reset), a file read that completes leaves the image empty, and so
\* the Start trigger stays unavailable.
C26_ClearedImageStaysEmpty ==
    [][(fileInput = "" /\ ReaderLoads) => (image' = Null /\ ~CanStart')]_vars

\* C27: selecting a non-image file sets solution to null, sets the error
\* message and sets the stage to idle, and changes nothing else of the App
\* state: the loaded image is kept, so with an image loaded Start is available
\* afterwards, and handleSolve always works on the image that is loaded.
C27_NonImageKeepsImage ==
    [][/\ \A file \in Files :
            (~IsImageFile(file) /\ processFile(file))
            => /\ solution' = Null
               /\ error' # Null
               /\ processingStage' = "idle"
               /\ image' = image
               /\ image # Null => CanStart'
       /\ handleSolve =>
            /\ Len(sessions') = Len(sessions) + 1
            /\ sessions'[Len(sessions')].image = image
            /\ RequestOf(sessions'[Len(sessions')]).data = Base64Of(image)]_vars

\* C27 witness: the last file selected was refused, and a submit made after it
\* is working on the image loaded earlier.
C27_Witness ==
    /\ fileInput = "c.txt"
    /\ image # Null
    /\ processingStage = "preprocessing"
    /\ \E i \in Running : sessions[i].pc = "t1" /\ sessions[i].image = image

\* C28: after any sequence of render calls on one container the container
\* holds one child, the content of the last call (a call made with MathJax
\* present replaces what was there; nothing accumulates); a rejected typeset
\* and a call made while MathJax is absent leave the container and the state
\* of the application as they are.
C28_RenderIdempotent ==
    /\ [](Len(container) <= 1)
    /\ []((effectProps # Null /\ container # <<>>)
            => container[1].text = Delimited(effectProps.latex, effectProps.display))
    /\ [][\A latex \in Latexes : \A display \in BOOLEAN :
            (mathJax # "absent" /\ render(latex, display))
            => container' = <<[text |-> Delimited(latex, display), typeset |-> FALSE]>>]_vars
    /\ [][(typesetSettles(FALSE) \/ (mathJax = "absent" /\ Render))
            => UNCHANGED <<container, solverVars, practiceVars, clientVars>>]_vars

\* C28 witness: a typeset has failed and was logged, and a later render call
\* has replaced the content and been typeset.
C28_Witness ==
    /\ logged
    /\ typesets = 0
    /\ Len(container) = 1
    /\ container[1].typeset
    /\ container[1].text = Delimited("x/2", FALSE)

\* C29: the expression SolutionDisplay hands to the renderer for a Solution is
\* its cleanedLatex when that field is present and not empty, and its
\* originalLatex otherwise; with MathJax present that is what the container shows.
C29_DisplayedExpression ==
    [][\A sol \in DisplaySolutions :
         displaySolution(sol)
         => LET hasCleaned == "cleanedLatex" \in DOMAIN sol /\ sol.cleanedLatex # ""
                shown == IF hasCleaned THEN sol.cleanedLatex ELSE sol.originalLatex IN
            /\ effectProps' = [latex |-> shown, display |-> TRUE]
            /\ mathJax # "absent" => container'[1].text = <<"$$", shown, "$$">>]_vars

\* C29 witness: the container shows the originalLatex of a Solution whose
\* cleanedLatex is empty or missing, typeset.
C29_Witness ==
    /\ effectProps = [latex |-> SolEmptyCleaned.originalLatex, display |-> TRUE]
    /\ Len(container) = 1
    /\ container[1].text = <<"$$", "2 x + 3 = 7", "$$">>
    /\ container[1].typeset

====
